---- MODULE Spec2Model ----
(***************************************************************************)
(* Model of the cupcake-store service layer (internal/service) on top of   *)
(* its persistence gateway (internal/repository), as a state machine.      *)
(*                                                                         *)
(* Text is a sequence of characters.  A character is a one-element token;  *)
(* Width gives its encoded size in bytes, because Go's len on a string     *)
(* counts bytes.  A Go pointer is a sequence of length at most one: <<>>   *)
(* is nil and <<x>> points at x.  A Go error is its message, NoError for   *)
(* nil.                                                                    *)
(***************************************************************************)
EXTENDS Integers, Sequences, FiniteSets, TLC

\* ------------------------------------------------------------ bounds ----

\* service calls made in one behaviour
MaxCalls == 3
\* rows the store ever assigns an identifier to
MaxId == 2

\* ------------------------------------------------------------- text -----

\* the character E_ACUTE stands for a two-byte UTF-8 character
Width(c) == IF c = "E_ACUTE" THEN 2 ELSE 1

RECURSIVE len(_)
\* Go's builtin len on a string: the number of bytes
len(s) == IF s = <<>> THEN 0 ELSE Width(Head(s)) + len(Tail(s))

IsSpace(c) == c \in {" ", "\t"}

RECURSIVE TrimLeft(_)
TrimLeft(s) == IF s # <<>> /\ IsSpace(Head(s)) THEN TrimLeft(Tail(s)) ELSE s

RECURSIVE TrimRight(_)
TrimRight(s) ==
    IF s # <<>> /\ IsSpace(s[Len(s)]) THEN TrimRight(SubSeq(s, 1, Len(s) - 1)) ELSE s

\* strings.TrimSpace: drops leading and trailing white space
TrimSpace(s) == TrimRight(TrimLeft(s))

\* the raw names a request carries: empty, blank, one byte after trimming,
\* two bytes after trimming, one two-byte character
NameStrings ==
    { <<>>,
      <<" ">>,
      <<" ", "a">>,
      <<" ", "a", "b", "\t">>,
      <<"E_ACUTE">> }

\* the raw flavors a request carries: empty, blank, padded
FlavorStrings ==
    { <<>>,
      <<" ">>,
      <<"\t", "a", "b", " ">> }

\* the prices a request carries: negative, zero, two positive ones
Prices == {0 - 1, 0, 1, 2}

Ids == 1 .. MaxId

Workers == {1, 2}

\* ----------------------------------------------------------- errors -----

NoError == "<nil>"
ErrNameRequired == "name is required"
ErrNameTooShort == "name must have at least 2 characters"
ErrFlavorRequired == "flavor is required"
ErrInvalidPrice == "price must be greater than zero"
\* gorm.ErrRecordNotFound, what First returns for no row
ErrRecordNotFound == "record not found"

\* ----------------------------------------------------------- models -----

CreateCupcakeRequest ==
    [Name : NameStrings, Flavor : FlavorStrings, PriceCents : Prices]

Opt(S) == {<<>>} \cup {<<x>> : x \in S}

UpdateCupcakeRequest ==
    [Name : Opt(NameStrings), Flavor : Opt(FlavorStrings),
     PriceCents : Opt(Prices), IsAvailable : Opt(BOOLEAN)]

\* NewCupcake with the request's texts stored as received
NewCupcake_Untrimmed(req) ==
    [ID |-> 0,
     Name |-> req.Name,
     Flavor |-> req.Flavor,
     PriceCents |-> req.PriceCents,
     IsAvailable |-> TRUE]

\* models.Cupcake without its timestamps; the zero ID is "not yet stored"
NewCupcake(req) ==
    [ID |-> 0,
     Name |-> TrimSpace(req.Name),
     Flavor |-> TrimSpace(req.Flavor),
     PriceCents |-> req.PriceCents,
     IsAvailable |-> TRUE]

\* ---------------------------------------------- persistence gateway -----
\* The table is a function from the identifiers of its rows to the rows;
\* s is the table's AUTOINCREMENT sequence, the largest identifier ever used.

\* Create that takes the identifier from the sequence without advancing it
RepoCreate_StaleSequence(d, s, c) ==
    LET n == IF s = 0 THEN 1 ELSE s
        row == [c EXCEPT !.ID = n]
    IN  [db |-> (n :> row) @@ d, seq |-> n, cupcake |-> row, err |-> NoError]

\* db.Create: INSERT, the engine assigns the next identifier
RepoCreate(d, s, c) ==
    LET row == [c EXCEPT !.ID = s + 1]
    IN  [db |-> (s + 1 :> row) @@ d, seq |-> s + 1, cupcake |-> row, err |-> NoError]

\* db.First(&cupcake, id)
RepoFindByID(d, id) ==
    IF id \in DOMAIN d
    THEN [cupcake |-> <<d[id]>>, err |-> NoError]
    ELSE [cupcake |-> <<>>, err |-> ErrRecordNotFound]

\* db.Save: UPDATE of every column WHERE id = c.ID and, when that touches no
\* row, INSERT of the row under c.ID
RepoUpdate(d, s, c) ==
    [db |-> (c.ID :> c) @@ d, seq |-> IF c.ID > s THEN c.ID ELSE s, err |-> NoError]

\* db.Delete(&models.Cupcake{}, id): DELETE WHERE id = id; deleting no row
\* is no error
RepoDelete(d, id) ==
    [db |-> [i \in DOMAIN d \ {id} |-> d[i]], err |-> NoError]

\* the identifiers of S in ascending order
Ascending(S) ==
    CHOOSE s \in [1 .. Cardinality(S) -> S] :
        \A i, j \in 1 .. Cardinality(S) : i < j => s[i] < s[j]

\* FindAll that returns the newest row first
RepoFindAll_NewestFirst(d) ==
    LET ids == Ascending(DOMAIN d)
        n == Cardinality(DOMAIN d)
    IN  [cupcakes |-> [i \in 1 .. n |-> d[ids[n + 1 - i]]], err |-> NoError]

\* db.Find(&cupcakes): SELECT * FROM cupcakes with no ORDER BY.  ID is the
\* INTEGER PRIMARY KEY of the table, its rowid, and the table has no other
\* index: SQLite answers with a scan of the table in rowid order.
RepoFindAll(d) ==
    LET ids == Ascending(DOMAIN d)
    IN  [cupcakes |-> [i \in 1 .. Cardinality(DOMAIN d) |-> d[ids[i]]],
         err |-> NoError]

\* ------------------------------------------------------------ service ---

\* validateCreateRequest with the length check ahead of the empty check
validateCreateRequest_LengthFirst(req) ==
    IF len(TrimSpace(req.Name)) < 2 THEN ErrNameTooShort
    ELSE IF TrimSpace(req.Name) = <<>> THEN ErrNameRequired
    ELSE IF TrimSpace(req.Flavor) = <<>> THEN ErrFlavorRequired
    ELSE IF req.PriceCents <= 0 THEN ErrInvalidPrice
    ELSE NoError

\* validateCreateRequest with the minimum length off by one
validateCreateRequest_MinOne(req) ==
    IF TrimSpace(req.Name) = <<>> THEN ErrNameRequired
    ELSE IF len(TrimSpace(req.Name)) < 1 THEN ErrNameTooShort
    ELSE IF TrimSpace(req.Flavor) = <<>> THEN ErrFlavorRequired
    ELSE IF req.PriceCents <= 0 THEN ErrInvalidPrice
    ELSE NoError

\* validateCreateRequest with the price checked ahead of the flavor
validateCreateRequest_PriceFirst(req) ==
    IF TrimSpace(req.Name) = <<>> THEN ErrNameRequired
    ELSE IF len(TrimSpace(req.Name)) < 2 THEN ErrNameTooShort
    ELSE IF req.PriceCents <= 0 THEN ErrInvalidPrice
    ELSE IF TrimSpace(req.Flavor) = <<>> THEN ErrFlavorRequired
    ELSE NoError

validateCreateRequest(req) ==
    IF TrimSpace(req.Name) = <<>> THEN ErrNameRequired
    ELSE IF len(TrimSpace(req.Name)) < 2 THEN ErrNameTooShort
    ELSE IF TrimSpace(req.Flavor) = <<>> THEN ErrFlavorRequired
    ELSE IF req.PriceCents <= 0 THEN ErrInvalidPrice
    ELSE NoError

\* CreateCupcake that stores the row before it looks at the validation result
CreateCupcakeCall_StoreFirst(d, s, req) ==
    LET err == validateCreateRequest(req)
        r == RepoCreate(d, s, NewCupcake(req))
    IN  IF err # NoError
        THEN [db |-> r.db, seq |-> r.seq, ret |-> <<>>, err |-> err,
              trace |-> <<"Create">>]
        ELSE [db |-> r.db, seq |-> r.seq, ret |-> <<r.cupcake>>, err |-> r.err,
              trace |-> <<"Create">>]

\* CreateCupcake on table d with sequence s: the table and sequence it
\* leaves, what it returns and the gateway calls it made
CreateCupcakeCall(d, s, req) ==
    LET err == validateCreateRequest(req)
        r == RepoCreate(d, s, NewCupcake(req))
    IN  IF err # NoError
        THEN [db |-> d, seq |-> s, ret |-> <<>>, err |-> err, trace |-> <<>>]
        ELSE [db |-> r.db, seq |-> r.seq, ret |-> <<r.cupcake>>, err |-> r.err,
              trace |-> <<"Create">>]

\* ApplyUpdate without the check of the price
ApplyUpdate_NoPriceCheck(c, req) ==
    LET name == TrimSpace(req.Name[1])
        c1 == IF req.Name # <<>> THEN [c EXCEPT !.Name = name] ELSE c
        c2 == IF req.Flavor # <<>>
              THEN [c1 EXCEPT !.Flavor = TrimSpace(req.Flavor[1])] ELSE c1
        c3 == IF req.PriceCents # <<>>
              THEN [c2 EXCEPT !.PriceCents = req.PriceCents[1]] ELSE c2
        c4 == IF req.IsAvailable # <<>>
              THEN [c3 EXCEPT !.IsAvailable = req.IsAvailable[1]] ELSE c3
    IN  IF req.Name # <<>> /\ len(name) < 2
        THEN [err |-> ErrNameTooShort, cupcake |-> c]
        ELSE [err |-> NoError, cupcake |-> c4]

\* ApplyUpdate that rejects a blank flavor as CreateCupcake does
ApplyUpdate_FlavorRequired(c, req) ==
    LET name == TrimSpace(req.Name[1])
        c1 == IF req.Name # <<>> THEN [c EXCEPT !.Name = name] ELSE c
        c2 == IF req.Flavor # <<>>
              THEN [c1 EXCEPT !.Flavor = TrimSpace(req.Flavor[1])] ELSE c1
        c3 == IF req.PriceCents # <<>>
              THEN [c2 EXCEPT !.PriceCents = req.PriceCents[1]] ELSE c2
        c4 == IF req.IsAvailable # <<>>
              THEN [c3 EXCEPT !.IsAvailable = req.IsAvailable[1]] ELSE c3
    IN  IF req.Name # <<>> /\ len(name) < 2
        THEN [err |-> ErrNameTooShort, cupcake |-> c]
        ELSE IF req.Flavor # <<>> /\ TrimSpace(req.Flavor[1]) = <<>>
        THEN [err |-> ErrFlavorRequired, cupcake |-> c1]
        ELSE IF req.PriceCents # <<>> /\ req.PriceCents[1] <= 0
        THEN [err |-> ErrInvalidPrice, cupcake |-> c2]
        ELSE [err |-> NoError, cupcake |-> c4]

\* ApplyUpdate with the empty-name check of validateCreateRequest ahead of
\* the length check
ApplyUpdate_NameRequired(c, req) ==
    LET name == TrimSpace(req.Name[1])
        c1 == IF req.Name # <<>> THEN [c EXCEPT !.Name = name] ELSE c
        c2 == IF req.Flavor # <<>>
              THEN [c1 EXCEPT !.Flavor = TrimSpace(req.Flavor[1])] ELSE c1
        c3 == IF req.PriceCents # <<>>
              THEN [c2 EXCEPT !.PriceCents = req.PriceCents[1]] ELSE c2
        c4 == IF req.IsAvailable # <<>>
              THEN [c3 EXCEPT !.IsAvailable = req.IsAvailable[1]] ELSE c3
    IN  IF req.Name # <<>> /\ name = <<>>
        THEN [err |-> ErrNameRequired, cupcake |-> c]
        ELSE IF req.Name # <<>> /\ len(name) < 2
        THEN [err |-> ErrNameTooShort, cupcake |-> c]
        ELSE IF req.PriceCents # <<>> /\ req.PriceCents[1] <= 0
        THEN [err |-> ErrInvalidPrice, cupcake |-> c2]
        ELSE [err |-> NoError, cupcake |-> c4]

\* ApplyUpdate with IsAvailable a plain bool: an absent field reads as false
ApplyUpdate_PlainBool(c, req) ==
    LET name == TrimSpace(req.Name[1])
        c1 == IF req.Name # <<>> THEN [c EXCEPT !.Name = name] ELSE c
        c2 == IF req.Flavor # <<>>
              THEN [c1 EXCEPT !.Flavor = TrimSpace(req.Flavor[1])] ELSE c1
        c3 == IF req.PriceCents # <<>>
              THEN [c2 EXCEPT !.PriceCents = req.PriceCents[1]] ELSE c2
        c4 == [c3 EXCEPT !.IsAvailable = (req.IsAvailable = <<TRUE>>)]
    IN  IF req.Name # <<>> /\ len(name) < 2
        THEN [err |-> ErrNameTooShort, cupcake |-> c]
        ELSE IF req.PriceCents # <<>> /\ req.PriceCents[1] <= 0
        THEN [err |-> ErrInvalidPrice, cupcake |-> c2]
        ELSE [err |-> NoError, cupcake |-> c4]

\* ApplyUpdate that validates every field before it assigns any
ApplyUpdate_ValidateFirst(c, req) ==
    LET name == TrimSpace(req.Name[1])
        c1 == IF req.Name # <<>> THEN [c EXCEPT !.Name = name] ELSE c
        c2 == IF req.Flavor # <<>>
              THEN [c1 EXCEPT !.Flavor = TrimSpace(req.Flavor[1])] ELSE c1
        c3 == IF req.PriceCents # <<>>
              THEN [c2 EXCEPT !.PriceCents = req.PriceCents[1]] ELSE c2
        c4 == IF req.IsAvailable # <<>>
              THEN [c3 EXCEPT !.IsAvailable = req.IsAvailable[1]] ELSE c3
    IN  IF req.Name # <<>> /\ len(name) < 2
        THEN [err |-> ErrNameTooShort, cupcake |-> c]
        ELSE IF req.PriceCents # <<>> /\ req.PriceCents[1] <= 0
        THEN [err |-> ErrInvalidPrice, cupcake |-> c]
        ELSE [err |-> NoError, cupcake |-> c4]

\* UpdateCupcake that adds the price of the request to the stored price
ApplyUpdate_PriceDelta(c, req) ==
    LET name == TrimSpace(req.Name[1])
        c1 == IF req.Name # <<>> THEN [c EXCEPT !.Name = name] ELSE c
        c2 == IF req.Flavor # <<>>
              THEN [c1 EXCEPT !.Flavor = TrimSpace(req.Flavor[1])] ELSE c1
        c3 == IF req.PriceCents # <<>>
              THEN [c2 EXCEPT !.PriceCents = @ + req.PriceCents[1]] ELSE c2
        c4 == IF req.IsAvailable # <<>>
              THEN [c3 EXCEPT !.IsAvailable = req.IsAvailable[1]] ELSE c3
    IN  IF req.Name # <<>> /\ len(name) < 2
        THEN [err |-> ErrNameTooShort, cupcake |-> c]
        ELSE IF req.PriceCents # <<>> /\ req.PriceCents[1] <= 0
        THEN [err |-> ErrInvalidPrice, cupcake |-> c2]
        ELSE [err |-> NoError, cupcake |-> c4]

\* UpdateCupcake after its FindByID: the assignments to the fetched copy c,
\* in program order, up to the first return.  cupcake is the copy as the
\* function leaves it.
ApplyUpdate(c, req) ==
    LET name == TrimSpace(req.Name[1])
        c1 == IF req.Name # <<>> THEN [c EXCEPT !.Name = name] ELSE c
        c2 == IF req.Flavor # <<>>
              THEN [c1 EXCEPT !.Flavor = TrimSpace(req.Flavor[1])] ELSE c1
        c3 == IF req.PriceCents # <<>>
              THEN [c2 EXCEPT !.PriceCents = req.PriceCents[1]] ELSE c2
        c4 == IF req.IsAvailable # <<>>
              THEN [c3 EXCEPT !.IsAvailable = req.IsAvailable[1]] ELSE c3
    IN  IF req.Name # <<>> /\ len(name) < 2
        THEN [err |-> ErrNameTooShort, cupcake |-> c]
        ELSE IF req.PriceCents # <<>> /\ req.PriceCents[1] <= 0
        THEN [err |-> ErrInvalidPrice, cupcake |-> c2]
        ELSE [err |-> NoError, cupcake |-> c4]

\* UpdateCupcake with an optimistic lock: it refuses to write when the row
\* is no longer the one it fetched
UpdateCupcakeCall_VersionChecked(d, s, c, req) ==
    LET m == ApplyUpdate(c, req)
        r == RepoUpdate(d, s, m.cupcake)
    IN  IF m.err # NoError
        THEN [db |-> d, seq |-> s, ret |-> <<>>, err |-> m.err,
              local |-> m.cupcake, trace |-> <<"FindByID">>]
        ELSE IF RepoFindByID(d, c.ID).cupcake # <<c>>
        THEN [db |-> d, seq |-> s, ret |-> <<>>, err |-> "stale object",
              local |-> m.cupcake, trace |-> <<"FindByID", "Update">>]
        ELSE [db |-> r.db, seq |-> r.seq, ret |-> <<m.cupcake>>, err |-> r.err,
              local |-> m.cupcake, trace |-> <<"FindByID", "Update">>]

\* UpdateCupcake that writes the copy back before it returns the merge error
UpdateCupcakeCall_WriteOnError(d, s, c, req) ==
    LET m == ApplyUpdate(c, req)
        r == RepoUpdate(d, s, m.cupcake)
    IN  IF m.err # NoError
        THEN [db |-> r.db, seq |-> r.seq, ret |-> <<>>, err |-> m.err,
              local |-> m.cupcake, trace |-> <<"FindByID", "Update">>]
        ELSE [db |-> r.db, seq |-> r.seq, ret |-> <<m.cupcake>>, err |-> r.err,
              local |-> m.cupcake, trace |-> <<"FindByID", "Update">>]

\* UpdateCupcake that makes no Update call when the request changed nothing
UpdateCupcakeCall_SkipUnchanged(d, s, c, req) ==
    LET m == ApplyUpdate(c, req)
        r == RepoUpdate(d, s, m.cupcake)
    IN  IF m.err # NoError
        THEN [db |-> d, seq |-> s, ret |-> <<>>, err |-> m.err,
              local |-> m.cupcake, trace |-> <<"FindByID">>]
        ELSE IF m.cupcake = c
        THEN [db |-> d, seq |-> s, ret |-> <<c>>, err |-> NoError,
              local |-> c, trace |-> <<"FindByID">>]
        ELSE [db |-> r.db, seq |-> r.seq, ret |-> <<m.cupcake>>, err |-> r.err,
              local |-> m.cupcake, trace |-> <<"FindByID", "Update">>]

\* the rest of UpdateCupcake, from the fetched copy c to its return
UpdateCupcakeCall(d, s, c, req) ==
    LET m == ApplyUpdate(c, req)
        r == RepoUpdate(d, s, m.cupcake)
    IN  IF m.err # NoError
        THEN [db |-> d, seq |-> s, ret |-> <<>>, err |-> m.err,
              local |-> m.cupcake, trace |-> <<"FindByID">>]
        ELSE [db |-> r.db, seq |-> r.seq, ret |-> <<m.cupcake>>, err |-> r.err,
              local |-> m.cupcake, trace |-> <<"FindByID", "Update">>]

DeleteCupcakeCall(d, id) ==
    LET r == RepoDelete(d, id)
    IN  [db |-> r.db, err |-> r.err, trace |-> <<"Delete">>]

GetCupcakeCall(d, id) ==
    LET r == RepoFindByID(d, id)
    IN  [ret |-> r.cupcake, err |-> r.err, trace |-> <<"FindByID">>]

GetAllCupcakesCall(d) ==
    LET r == RepoFindAll(d)
    IN  [ret |-> r.cupcakes, err |-> r.err, trace |-> <<"FindAll">>]

\* -------------------------------------------------------------- state ---

VARIABLES
    db,        \* the cupcakes table
    seq,       \* its AUTOINCREMENT sequence
    inflight,  \* the copies held by the UpdateCupcake calls between their
               \* FindByID and their return, one per call
    resp,      \* what the call completed by the latest step returned
    ncalls,    \* service calls started
    deleted    \* history: the ids for which a DeleteCupcake call returned nil

vars == <<db, seq, inflight, resp, ncalls, deleted>>

NoResp ==
    [op |-> "none", id |-> 0, req |-> <<>>, err |-> NoError, ret |-> <<>>,
     fetched |-> <<>>, local |-> <<>>, trace |-> <<>>]

Init ==
    /\ db = <<>>
    /\ seq = 0
    /\ inflight = <<>>
    /\ resp = NoResp
    /\ ncalls = 0
    /\ deleted = {}

\* a call may start
CanCall == resp = NoResp /\ ncalls < MaxCalls

CreateCupcake(req) ==
    /\ CanCall
    /\ LET r == CreateCupcakeCall(db, seq, req)
       IN  /\ r.seq <= MaxId
           /\ db' = r.db
           /\ seq' = r.seq
           /\ resp' = [NoResp EXCEPT !.op = "CreateCupcake", !.req = <<req>>,
                                     !.err = r.err, !.ret = r.ret, !.trace = r.trace]
    /\ ncalls' = ncalls + 1
    /\ UNCHANGED <<inflight, deleted>>

\* GetCupcake that removes the row it has read
GetCupcake_ReadOnce(id) ==
    /\ CanCall
    /\ LET r == GetCupcakeCall(db, id)
       IN  resp' = [NoResp EXCEPT !.op = "GetCupcake", !.id = id,
                                  !.err = r.err, !.ret = r.ret, !.trace = r.trace]
    /\ db' = RepoDelete(db, id).db
    /\ ncalls' = ncalls + 1
    /\ UNCHANGED <<seq, inflight, deleted>>

GetCupcake(id) ==
    /\ CanCall
    /\ LET r == GetCupcakeCall(db, id)
       IN  resp' = [NoResp EXCEPT !.op = "GetCupcake", !.id = id,
                                  !.err = r.err, !.ret = r.ret, !.trace = r.trace]
    /\ ncalls' = ncalls + 1
    /\ UNCHANGED <<db, seq, inflight, deleted>>

\* here resp.ret is the slice returned, not a pointer
GetAllCupcakes ==
    /\ CanCall
    /\ LET r == GetAllCupcakesCall(db)
       IN  resp' = [NoResp EXCEPT !.op = "GetAllCupcakes", !.err = r.err,
                                  !.ret = r.ret, !.trace = r.trace]
    /\ ncalls' = ncalls + 1
    /\ UNCHANGED <<db, seq, inflight, deleted>>

\* UpdateCupcake up to the return of FindByID.  Each request is served by a
\* goroutine of its own; at most Cardinality(Workers) of them are inside
\* UpdateCupcake at a time.
UpdateCupcakeFetch(id) ==
    /\ CanCall
    /\ Len(inflight) < Cardinality(Workers)
    /\ LET r == RepoFindByID(db, id)
       IN  IF r.err # NoError
           THEN /\ resp' = [NoResp EXCEPT !.op = "UpdateCupcake", !.id = id,
                                          !.err = r.err, !.trace = <<"FindByID">>]
                /\ UNCHANGED inflight
           ELSE /\ inflight' = Append(inflight, r.cupcake[1])
                /\ UNCHANGED resp
    /\ ncalls' = ncalls + 1
    /\ UNCHANGED <<db, seq, deleted>>

\* UpdateCupcake from the return of FindByID to its own return, for the call
\* holding inflight[i].  The request is read here for the first time, so it
\* is drawn here.  Of the calls that hold equal copies only the first is
\* taken: which of them moves makes no difference to the state reached.
UpdateCupcakeWrite(i, req) ==
    /\ resp = NoResp
    /\ i \in 1 .. Len(inflight)
    /\ \A j \in 1 .. (i - 1) : inflight[j] # inflight[i]
    /\ LET c == inflight[i]
           r == UpdateCupcakeCall(db, seq, c, req)
       IN  /\ db' = r.db
           /\ seq' = r.seq
           /\ resp' = [NoResp EXCEPT !.op = "UpdateCupcake", !.id = c.ID,
                                     !.req = <<req>>, !.err = r.err, !.ret = r.ret,
                                     !.fetched = <<c>>, !.local = <<r.local>>,
                                     !.trace = r.trace]
    /\ inflight' = [k \in 1 .. (Len(inflight) - 1) |->
                        IF k < i THEN inflight[k] ELSE inflight[k + 1]]
    /\ UNCHANGED <<ncalls, deleted>>

DeleteCupcake(id) ==
    /\ CanCall
    /\ LET r == DeleteCupcakeCall(db, id)
       IN  /\ db' = r.db
           /\ resp' = [NoResp EXCEPT !.op = "DeleteCupcake", !.id = id,
                                     !.err = r.err, !.trace = r.trace]
           /\ deleted' = IF r.err = NoError THEN deleted \cup {id} ELSE deleted
    /\ ncalls' = ncalls + 1
    /\ UNCHANGED <<seq, inflight>>

\* the caller takes the result; the next call's result replaces it
Return ==
    /\ resp # NoResp
    /\ resp' = NoResp
    /\ UNCHANGED <<db, seq, inflight, ncalls, deleted>>

Next ==
    \/ \E req \in CreateCupcakeRequest : CreateCupcake(req)
    \/ \E id \in Ids : GetCupcake(id)
    \/ \E id \in Ids : UpdateCupcakeFetch(id)
    \/ \E i \in Workers, req \in UpdateCupcakeRequest : UpdateCupcakeWrite(i, req)
    \/ \E id \in Ids : DeleteCupcake(id)
    \/ Return

Spec == Init /\ [][Next]_vars

\* The service driven by one caller: a call starts only when no call is
\* under way, so that an UpdateCupcake writes before anything else runs.
Idle == inflight = <<>>

SeqNext ==
    \/ \E req \in CreateCupcakeRequest : Idle /\ CreateCupcake(req)
    \/ \E id \in Ids : Idle /\ GetCupcake(id)
    \/ Idle /\ GetAllCupcakes
    \/ \E id \in Ids : Idle /\ UpdateCupcakeFetch(id)
    \/ \E req \in UpdateCupcakeRequest : UpdateCupcakeWrite(1, req)
    \/ \E id \in Ids : Idle /\ DeleteCupcake(id)
    \/ Return

SeqSpec == Init /\ [][SeqNext]_vars

\* --------------------------------------------------------------- http ---

StatusOK == 200
StatusCreated == 201
StatusNoContent == 204
StatusBadRequest == 400
StatusNotFound == 404
StatusInternalServerError == 500

\* the values of the {id} segment of the path that are sent
IdStrings ==
    {<<"0">>, <<"0", "0">>, <<"1">>, <<"0", "2">>, <<"9", "9">>,
     <<"a", "b", "c">>, <<"-", "1">>, <<"1", "x">>}

Digit ==
    [c \in {"0", "1", "2", "3", "4", "5", "6", "7", "8", "9"} |->
        CASE c = "0" -> 0 [] c = "1" -> 1 [] c = "2" -> 2 [] c = "3" -> 3
          [] c = "4" -> 4 [] c = "5" -> 5 [] c = "6" -> 6 [] c = "7" -> 7
          [] c = "8" -> 8 [] c = "9" -> 9]

RECURSIVE DigitsValue(_)
DigitsValue(s) ==
    IF s = <<>> THEN 0
    ELSE 10 * DigitsValue(SubSeq(s, 1, Len(s) - 1)) + Digit[s[Len(s)]]

RECURSIVE OnlyDigits(_)
OnlyDigits(s) ==
    IF s = <<>> THEN <<>>
    ELSE IF s[1] \in DOMAIN Digit THEN <<s[1]>> \o OnlyDigits(Tail(s))
    ELSE OnlyDigits(Tail(s))

\* a parse that skips what is not a digit instead of rejecting the string
ParseUint_SkipNonDigits(s) ==
    IF OnlyDigits(s) = <<>>
    THEN [val |-> 0, err |-> "invalid syntax"]
    ELSE [val |-> DigitsValue(OnlyDigits(s)), err |-> NoError]

\* strconv.ParseUint(s, 10, 32) for the strings of IdStrings, none of which
\* is long enough to leave the 32 bits: a syntax error for the empty string
\* and for any character that is not a decimal digit (a sign included)
ParseUint(s) ==
    IF s = <<>> \/ \E i \in 1 .. Len(s) : s[i] \notin DOMAIN Digit
    THEN [val |-> 0, err |-> "invalid syntax"]
    ELSE [val |-> DigitsValue(s), err |-> NoError]

\* the documents sent as the body of a PUT and of a POST
PutDocuments ==
    [Name : Opt({<<" ">>, <<" ", "a", "b", "\t">>}), Flavor : Opt({<<" ">>}),
     PriceCents : Opt({0, 2}), IsAvailable : Opt({FALSE})]

PostDocuments ==
    [Name : {<<" ", "a">>, <<" ", "a", "b", "\t">>, <<"E_ACUTE">>},
     Flavor : {<<" ">>, <<"\t", "a", "b", " ">>}, PriceCents : {0, 1}]

\* a request body: a JSON document of the fields of the request type, or
\* bytes that json.Decoder rejects
Bodies(Documents) ==
    {[wellformed |-> FALSE, doc |-> <<>>]} \cup
    {[wellformed |-> TRUE, doc |-> <<d>>] : d \in Documents}

\* json.NewDecoder(r.Body).Decode(&req)
Decode(body) ==
    IF body.wellformed THEN [req |-> body.doc, err |-> NoError]
    ELSE [req |-> <<>>, err |-> "invalid character"]

\* json.NewEncoder(w).Encode(cupcake), by the json tags of models.Cupcake
Encode(c) ==
    [id |-> c.ID, name |-> c.Name, flavor |-> c.Flavor,
     price_cents |-> c.PriceCents, is_available |-> c.IsAvailable]

\* sendJSONError that writes the message under the key "message"
sendJSONError_MessageKey(message, statusCode) ==
    [status |-> statusCode, body |-> [message |-> message]]

\* sendJSONError that leaves the status at the default of the ResponseWriter
sendJSONError_DefaultStatus(message, statusCode) ==
    [status |-> StatusOK, body |-> [error |-> message]]

sendJSONError(message, statusCode) ==
    [status |-> statusCode, body |-> [error |-> message]]

\* what a handler leaves behind: the response written, and with it the
\* request served and the result of the service call made (NoResp if none)
Served(handler, idStr, payload, w, r) ==
    [handler |-> handler, idStr |-> idStr, payload |-> payload,
     status |-> w.status, body |-> w.body,
     op |-> r.op, id |-> r.id, req |-> r.req, err |-> r.err, ret |-> r.ret,
     fetched |-> r.fetched, local |-> r.local, trace |-> r.trace]

\* UpdateCupcake that inserts the merged entity when FindByID finds no row
UpdateCupcakeAtOnce_InsertIfAbsent(d, s, id, req) ==
    LET f == RepoFindByID(d, id)
        c == IF f.err # NoError
             THEN [ID |-> id, Name |-> <<>>, Flavor |-> <<>>, PriceCents |-> 0,
                   IsAvailable |-> FALSE]
             ELSE f.cupcake[1]
        r == UpdateCupcakeCall(d, s, c, req)
    IN  [db |-> r.db, seq |-> r.seq, ret |-> r.ret, err |-> r.err,
         local |-> <<r.local>>, fetched |-> f.cupcake, trace |-> r.trace]

\* UpdateCupcake that checks the fields of the request before it looks the
\* id up
UpdateCupcakeAtOnce_ValidateBeforeFetch(d, s, id, req) ==
    LET f == RepoFindByID(d, id)
        blank == [ID |-> id, Name |-> <<>>, Flavor |-> <<>>, PriceCents |-> 0,
                  IsAvailable |-> FALSE]
        m == ApplyUpdate(blank, req)
        r == UpdateCupcakeCall(d, s, f.cupcake[1], req)
    IN  IF m.err # NoError
        THEN [db |-> d, seq |-> s, ret |-> <<>>, err |-> m.err, local |-> <<>>,
              fetched |-> <<>>, trace |-> <<>>]
        ELSE IF f.err # NoError
        THEN [db |-> d, seq |-> s, ret |-> <<>>, err |-> f.err, local |-> <<>>,
              fetched |-> <<>>, trace |-> <<"FindByID">>]
        ELSE [db |-> r.db, seq |-> r.seq, ret |-> r.ret, err |-> r.err,
              local |-> <<r.local>>, fetched |-> f.cupcake, trace |-> r.trace]

\* UpdateCupcake from call to return with no other call in between
UpdateCupcakeAtOnce(d, s, id, req) ==
    LET f == RepoFindByID(d, id)
        r == UpdateCupcakeCall(d, s, f.cupcake[1], req)
    IN  IF f.err # NoError
        THEN [db |-> d, seq |-> s, ret |-> <<>>, err |-> f.err, local |-> <<>>,
              fetched |-> <<>>, trace |-> <<"FindByID">>]
        ELSE [db |-> r.db, seq |-> r.seq, ret |-> r.ret, err |-> r.err,
              local |-> <<r.local>>, fetched |-> f.cupcake, trace |-> r.trace]

HealthCheck ==
    /\ CanCall
    /\ resp' = Served("HealthCheck", <<>>, <<>>,
                      [status |-> StatusOK,
                       body |-> [status |-> "ok",
                                 message |-> "Cupcake Store API is running!"]],
                      NoResp)
    /\ ncalls' = ncalls + 1
    /\ UNCHANGED <<db, seq, inflight, deleted>>

HandlerCreateCupcake(body) ==
    /\ CanCall
    /\ LET dec == Decode(body)
           r == CreateCupcakeCall(db, seq, dec.req[1])
           called == [NoResp EXCEPT !.op = "CreateCupcake", !.req = dec.req,
                                    !.err = r.err, !.ret = r.ret,
                                    !.trace = r.trace]
       IN  IF dec.err # NoError
           THEN /\ resp' = Served("CreateCupcake", <<>>, body,
                                  sendJSONError("Error decoding request",
                                                StatusBadRequest), NoResp)
                /\ UNCHANGED <<db, seq>>
           ELSE /\ r.seq <= MaxId
                /\ db' = r.db
                /\ seq' = r.seq
                /\ resp' = Served("CreateCupcake", <<>>, body,
                                  IF r.err # NoError
                                  THEN sendJSONError(r.err, StatusBadRequest)
                                  ELSE [status |-> StatusCreated,
                                        body |-> Encode(r.ret[1])],
                                  called)
    /\ ncalls' = ncalls + 1
    /\ UNCHANGED <<inflight, deleted>>

HandlerGetCupcake(idStr) ==
    /\ CanCall
    /\ LET p == ParseUint(idStr)
           r == GetCupcakeCall(db, p.val)
           called == [NoResp EXCEPT !.op = "GetCupcake", !.id = p.val,
                                    !.err = r.err, !.ret = r.ret,
                                    !.trace = r.trace]
       IN  resp' =
             IF p.err # NoError \/ p.val = 0
             THEN Served("GetCupcake", idStr, <<>>,
                         sendJSONError("Invalid ID", StatusBadRequest), NoResp)
             ELSE Served("GetCupcake", idStr, <<>>,
                         IF r.err # NoError
                         THEN sendJSONError("cupcake not found", StatusNotFound)
                         ELSE [status |-> StatusOK, body |-> Encode(r.ret[1])],
                         called)
    /\ ncalls' = ncalls + 1
    /\ UNCHANGED <<db, seq, inflight, deleted>>

HandlerGetAllCupcakes ==
    /\ CanCall
    /\ LET r == GetAllCupcakesCall(db)
           called == [NoResp EXCEPT !.op = "GetAllCupcakes", !.err = r.err,
                                    !.ret = r.ret, !.trace = r.trace]
       IN  resp' = Served("GetAllCupcakes", <<>>, <<>>,
                          IF r.err # NoError
                          THEN sendJSONError("Error fetching cupcakes",
                                             StatusInternalServerError)
                          ELSE [status |-> StatusOK,
                                body |-> [i \in DOMAIN r.ret |-> Encode(r.ret[i])]],
                          called)
    /\ ncalls' = ncalls + 1
    /\ UNCHANGED <<db, seq, inflight, deleted>>

HandlerUpdateCupcake(idStr, body) ==
    /\ CanCall
    /\ LET p == ParseUint(idStr)
           dec == Decode(body)
           r == UpdateCupcakeAtOnce(db, seq, p.val, dec.req[1])
           called == [NoResp EXCEPT !.op = "UpdateCupcake", !.id = p.val,
                                    !.req = dec.req, !.err = r.err,
                                    !.ret = r.ret, !.fetched = r.fetched,
                                    !.local = r.local, !.trace = r.trace]
       IN  IF p.err # NoError \/ p.val = 0
           THEN /\ resp' = Served("UpdateCupcake", idStr, body,
                                  sendJSONError("Invalid ID", StatusBadRequest),
                                  NoResp)
                /\ UNCHANGED <<db, seq>>
           ELSE IF dec.err # NoError
           THEN /\ resp' = Served("UpdateCupcake", idStr, body,
                                  sendJSONError("Error decoding request",
                                                StatusBadRequest), NoResp)
                /\ UNCHANGED <<db, seq>>
           ELSE /\ db' = r.db
                /\ seq' = r.seq
                /\ resp' = Served("UpdateCupcake", idStr, body,
                                  IF r.err # NoError
                                  THEN sendJSONError(r.err, StatusBadRequest)
                                  ELSE [status |-> StatusOK,
                                        body |-> Encode(r.ret[1])],
                                  called)
    /\ ncalls' = ncalls + 1
    /\ UNCHANGED <<inflight, deleted>>

HandlerDeleteCupcake(idStr) ==
    /\ CanCall
    /\ LET p == ParseUint(idStr)
           r == DeleteCupcakeCall(db, p.val)
           called == [NoResp EXCEPT !.op = "DeleteCupcake", !.id = p.val,
                                    !.err = r.err, !.trace = r.trace]
       IN  IF p.err # NoError \/ p.val = 0
           THEN /\ resp' = Served("DeleteCupcake", idStr, <<>>,
                                  sendJSONError("Invalid ID", StatusBadRequest),
                                  NoResp)
                /\ UNCHANGED <<db, deleted>>
           ELSE /\ db' = r.db
                /\ deleted' = IF r.err = NoError THEN deleted \cup {p.val}
                              ELSE deleted
                /\ resp' = Served("DeleteCupcake", idStr, <<>>,
                                  IF r.err # NoError
                                  THEN sendJSONError(r.err, StatusBadRequest)
                                  ELSE [status |-> StatusNoContent,
                                        body |-> <<>>],
                                  called)
    /\ ncalls' = ncalls + 1
    /\ UNCHANGED <<seq, inflight>>

\* the router's table, one request served at a time
HTTPNext ==
    \/ HealthCheck
    \/ HandlerGetAllCupcakes
    \/ \E body \in Bodies(PostDocuments) : HandlerCreateCupcake(body)
    \/ \E idStr \in IdStrings : HandlerGetCupcake(idStr)
    \/ \E idStr \in IdStrings, body \in Bodies(PutDocuments) :
          HandlerUpdateCupcake(idStr, body)
    \/ \E idStr \in IdStrings : HandlerDeleteCupcake(idStr)
    \/ Return

HTTPSpec == Init /\ [][HTTPNext]_vars

\* ----------------------------------------------- a gateway that can fail ---
\* Every method of the gateway returns the error of the database call it
\* makes.  F is the set of gateway methods whose call fails while a request
\* is served; the failed call changes nothing.

GatewayMethods == {"Create", "FindByID", "FindAll", "Update", "Delete"}

\* an error of the database other than gorm.ErrRecordNotFound
ErrGateway == "database is locked"

RepoCreateUnder(F, d, s, c) ==
    IF "Create" \in F
    THEN [db |-> d, seq |-> s, cupcake |-> c, err |-> ErrGateway]
    ELSE RepoCreate(d, s, c)

RepoFindByIDUnder(F, d, id) ==
    IF "FindByID" \in F
    THEN [cupcake |-> <<>>, err |-> ErrGateway]
    ELSE RepoFindByID(d, id)

RepoFindAllUnder(F, d) ==
    IF "FindAll" \in F
    THEN [cupcakes |-> <<>>, err |-> ErrGateway]
    ELSE RepoFindAll(d)

RepoUpdateUnder(F, d, s, c) ==
    IF "Update" \in F
    THEN [db |-> d, seq |-> s, err |-> ErrGateway]
    ELSE RepoUpdate(d, s, c)

RepoDeleteUnder(F, d, id) ==
    IF "Delete" \in F
    THEN [db |-> d, err |-> ErrGateway]
    ELSE RepoDelete(d, id)

\* CreateCupcake that calls Create a second time when the first call failed
CreateCupcakeUnder_Retry(F, d, s, req) ==
    LET verr == validateCreateRequest(req)
        r == RepoCreate(d, s, NewCupcake(req))
    IN  IF verr # NoError
        THEN [db |-> d, seq |-> s, ret |-> <<>>, err |-> verr, trace |-> <<>>]
        ELSE [db |-> r.db, seq |-> r.seq, ret |-> <<r.cupcake>>, err |-> NoError,
              trace |-> IF "Create" \in F THEN <<"Create", "Create">>
                        ELSE <<"Create">>]

\* CreateCupcake, the error return of repo.Create included
CreateCupcakeUnder(F, d, s, req) ==
    LET verr == validateCreateRequest(req)
        r == RepoCreateUnder(F, d, s, NewCupcake(req))
    IN  IF verr # NoError
        THEN [db |-> d, seq |-> s, ret |-> <<>>, err |-> verr, trace |-> <<>>]
        ELSE IF r.err # NoError
        THEN [db |-> r.db, seq |-> r.seq, ret |-> <<>>, err |-> r.err,
              trace |-> <<"Create">>]
        ELSE [db |-> r.db, seq |-> r.seq, ret |-> <<r.cupcake>>, err |-> NoError,
              trace |-> <<"Create">>]

GetCupcakeUnder(F, d, id) ==
    LET r == RepoFindByIDUnder(F, d, id)
    IN  IF r.err # NoError
        THEN [ret |-> <<>>, err |-> r.err, trace |-> <<"FindByID">>]
        ELSE [ret |-> r.cupcake, err |-> NoError, trace |-> <<"FindByID">>]

GetAllCupcakesUnder(F, d) ==
    LET r == RepoFindAllUnder(F, d)
    IN  [ret |-> r.cupcakes, err |-> r.err, trace |-> <<"FindAll">>]

\* UpdateCupcake from call to return, the error returns of repo.FindByID
\* and of repo.Update included
UpdateCupcakeUnder(F, d, s, id, req) ==
    LET f == RepoFindByIDUnder(F, d, id)
        m == ApplyUpdate(f.cupcake[1], req)
        r == RepoUpdateUnder(F, d, s, m.cupcake)
    IN  IF f.err # NoError
        THEN [db |-> d, seq |-> s, ret |-> <<>>, err |-> f.err,
              trace |-> <<"FindByID">>]
        ELSE IF m.err # NoError
        THEN [db |-> d, seq |-> s, ret |-> <<>>, err |-> m.err,
              trace |-> <<"FindByID">>]
        ELSE IF r.err # NoError
        THEN [db |-> r.db, seq |-> r.seq, ret |-> <<>>, err |-> r.err,
              trace |-> <<"FindByID", "Update">>]
        ELSE [db |-> r.db, seq |-> r.seq, ret |-> <<m.cupcake>>, err |-> NoError,
              trace |-> <<"FindByID", "Update">>]

DeleteCupcakeUnder(F, d, id) ==
    LET r == RepoDeleteUnder(F, d, id)
    IN  [db |-> r.db, err |-> r.err, trace |-> <<"Delete">>]

\* the handlers over that gateway; resp.faults is the set F of the request
ServedUnder(F, handler, idStr, payload, w, r) ==
    [faults |-> F, handler |-> handler, idStr |-> idStr, payload |-> payload,
     status |-> w.status, body |-> w.body,
     op |-> r.op, id |-> r.id, req |-> r.req, err |-> r.err, ret |-> r.ret,
     trace |-> r.trace]

HandlerCreateCupcakeUnder(F, body) ==
    /\ CanCall
    /\ LET dec == Decode(body)
           r == CreateCupcakeUnder(F, db, seq, dec.req[1])
           called == [op |-> "CreateCupcake", id |-> 0, req |-> dec.req,
                      err |-> r.err, ret |-> r.ret, trace |-> r.trace]
       IN  IF dec.err # NoError
           THEN /\ resp' = ServedUnder(F, "CreateCupcake", <<>>, body,
                                       sendJSONError("Error decoding request",
                                                     StatusBadRequest), NoResp)
                /\ UNCHANGED <<db, seq>>
           ELSE /\ r.seq <= MaxId
                /\ db' = r.db
                /\ seq' = r.seq
                /\ resp' = ServedUnder(F, "CreateCupcake", <<>>, body,
                                       IF r.err # NoError
                                       THEN sendJSONError(r.err, StatusBadRequest)
                                       ELSE [status |-> StatusCreated,
                                             body |-> Encode(r.ret[1])],
                                       called)
    /\ ncalls' = ncalls + 1
    /\ UNCHANGED <<inflight, deleted>>

HandlerGetCupcakeUnder(F, idStr) ==
    /\ CanCall
    /\ LET p == ParseUint(idStr)
           r == GetCupcakeUnder(F, db, p.val)
           called == [op |-> "GetCupcake", id |-> p.val, req |-> <<>>,
                      err |-> r.err, ret |-> r.ret, trace |-> r.trace]
       IN  resp' =
             IF p.err # NoError \/ p.val = 0
             THEN ServedUnder(F, "GetCupcake", idStr, <<>>,
                              sendJSONError("Invalid ID", StatusBadRequest),
                              NoResp)
             ELSE ServedUnder(F, "GetCupcake", idStr, <<>>,
                              IF r.err # NoError
                              THEN sendJSONError("cupcake not found",
                                                 StatusNotFound)
                              ELSE [status |-> StatusOK,
                                    body |-> Encode(r.ret[1])],
                              called)
    /\ ncalls' = ncalls + 1
    /\ UNCHANGED <<db, seq, inflight, deleted>>

HandlerGetAllCupcakesUnder(F) ==
    /\ CanCall
    /\ LET r == GetAllCupcakesUnder(F, db)
           called == [op |-> "GetAllCupcakes", id |-> 0, req |-> <<>>,
                      err |-> r.err, ret |-> r.ret, trace |-> r.trace]
       IN  resp' = ServedUnder(F, "GetAllCupcakes", <<>>, <<>>,
                               IF r.err # NoError
                               THEN sendJSONError("Error fetching cupcakes",
                                                  StatusInternalServerError)
                               ELSE [status |-> StatusOK,
                                     body |-> [i \in DOMAIN r.ret |->
                                                   Encode(r.ret[i])]],
                               called)
    /\ ncalls' = ncalls + 1
    /\ UNCHANGED <<db, seq, inflight, deleted>>

HandlerUpdateCupcakeUnder(F, idStr, body) ==
    /\ CanCall
    /\ LET p == ParseUint(idStr)
           dec == Decode(body)
           r == UpdateCupcakeUnder(F, db, seq, p.val, dec.req[1])
           called == [op |-> "UpdateCupcake", id |-> p.val, req |-> dec.req,
                      err |-> r.err, ret |-> r.ret, trace |-> r.trace]
       IN  IF p.err # NoError \/ p.val = 0
           THEN /\ resp' = ServedUnder(F, "UpdateCupcake", idStr, body,
                                       sendJSONError("Invalid ID",
                                                     StatusBadRequest), NoResp)
                /\ UNCHANGED <<db, seq>>
           ELSE IF dec.err # NoError
           THEN /\ resp' = ServedUnder(F, "UpdateCupcake", idStr, body,
                                       sendJSONError("Error decoding request",
                                                     StatusBadRequest), NoResp)
                /\ UNCHANGED <<db, seq>>
           ELSE /\ db' = r.db
                /\ seq' = r.seq
                /\ resp' = ServedUnder(F, "UpdateCupcake", idStr, body,
                                       IF r.err # NoError
                                       THEN sendJSONError(r.err, StatusBadRequest)
                                       ELSE [status |-> StatusOK,
                                             body |-> Encode(r.ret[1])],
                                       called)
    /\ ncalls' = ncalls + 1
    /\ UNCHANGED <<inflight, deleted>>

HandlerDeleteCupcakeUnder(F, idStr) ==
    /\ CanCall
    /\ LET p == ParseUint(idStr)
           r == DeleteCupcakeUnder(F, db, p.val)
           called == [op |-> "DeleteCupcake", id |-> p.val, req |-> <<>>,
                      err |-> r.err, ret |-> <<>>, trace |-> r.trace]
       IN  IF p.err # NoError \/ p.val = 0
           THEN /\ resp' = ServedUnder(F, "DeleteCupcake", idStr, <<>>,
                                       sendJSONError("Invalid ID",
                                                     StatusBadRequest), NoResp)
                /\ UNCHANGED <<db, deleted>>
           ELSE /\ db' = r.db
                /\ deleted' = IF r.err = NoError THEN deleted \cup {p.val}
                              ELSE deleted
                /\ resp' = ServedUnder(F, "DeleteCupcake", idStr, <<>>,
                                       IF r.err # NoError
                                       THEN sendJSONError(r.err, StatusBadRequest)
                                       ELSE [status |-> StatusNoContent,
                                             body |-> <<>>],
                                       called)
    /\ ncalls' = ncalls + 1
    /\ UNCHANGED <<seq, inflight>>

\* the router's table over the gateway that can fail, one request at a time
FaultNext ==
    \/ \E F \in SUBSET {"FindAll"} : HandlerGetAllCupcakesUnder(F)
    \/ \E F \in SUBSET {"Create"}, body \in Bodies(PostDocuments) :
          HandlerCreateCupcakeUnder(F, body)
    \/ \E F \in SUBSET {"FindByID"}, idStr \in IdStrings :
          HandlerGetCupcakeUnder(F, idStr)
    \/ \E F \in SUBSET {"FindByID", "Update"}, idStr \in IdStrings,
          body \in Bodies(PutDocuments) : HandlerUpdateCupcakeUnder(F, idStr, body)
    \/ \E F \in SUBSET {"Delete"}, idStr \in IdStrings :
          HandlerDeleteCupcakeUnder(F, idStr)
    \/ Return

FaultSpec == Init /\ [][FaultNext]_vars

\* ------------------------------------------------------- database.Init ---
\* The schema of a database is the set of its tables.  gorm's AutoMigrate
\* creates the table of each model it is given and nothing else.

TableName == "cupcakes"

AutoMigrate(tables, dst) == tables \cup dst

\* runMigrations: AutoMigrate is called with no model
runMigrations(tables) == AutoMigrate(tables, {})

\* the configuration of the router's tests: a fresh in-memory database
FreshConfig == [DBDialect |-> "sqlite", DBDSN |-> ":memory:", LogLevel |-> "error"]

\* Init: open the database of the dialect, then run the migrations
DatabaseInit(cfg) ==
    IF cfg.DBDialect \notin {"postgres", "sqlite"}
    THEN [err |-> "unsupported database dialect", tables |-> {}]
    ELSE [err |-> NoError, tables |-> runMigrations({})]

\* every statement of the gateway names the table: without it each gateway
\* method returns the database's error
SchemaFaults(tables) == IF TableName \in tables THEN {} ELSE GatewayMethods

\* main: Init, then the router over the handle Init returned
Booted == SchemaFaults(DatabaseInit(FreshConfig).tables)

\* the state when main starts to serve: Init has returned without error
BootInit == Init /\ DatabaseInit(FreshConfig).err = NoError

BootNext ==
    \/ HandlerGetAllCupcakesUnder(Booted)
    \/ \E body \in Bodies(PostDocuments) : HandlerCreateCupcakeUnder(Booted, body)
    \/ \E idStr \in IdStrings : HandlerGetCupcakeUnder(Booted, idStr)
    \/ \E idStr \in IdStrings, body \in Bodies(PutDocuments) :
          HandlerUpdateCupcakeUnder(Booted, idStr, body)
    \/ \E idStr \in IdStrings : HandlerDeleteCupcakeUnder(Booted, idStr)
    \/ Return

BootSpec == BootInit /\ [][BootNext]_vars

\* ----------------------------------------------------------- timestamps ---
\* models.Cupcake has CreatedAt (autoCreateTime) and UpdatedAt
\* (autoUpdateTime).  The specifications above leave the two columns out;
\* TimeSpec carries them.  A time is a positive integer, 0 is the zero
\* time.Time of a struct whose field was never set, and the clock is read
\* off the count of the calls started: it never goes back, and two writes
\* with no call started between them read the same time.

Now == ncalls

\* the entity CreateCupcake builds, with its two time fields unset
NewCupcakeTimed(req) ==
    [ID |-> 0,
     Name |-> NewCupcake(req).Name,
     Flavor |-> NewCupcake(req).Flavor,
     PriceCents |-> NewCupcake(req).PriceCents,
     IsAvailable |-> NewCupcake(req).IsAvailable,
     CreatedAt |-> 0,
     UpdatedAt |-> 0]

\* db.Create at time t: both time columns that are unset are set to t
RepoCreateAt(t, d, s, c) ==
    LET row == [c EXCEPT !.ID = s + 1,
                         !.CreatedAt = IF @ = 0 THEN t ELSE @,
                         !.UpdatedAt = IF @ = 0 THEN t ELSE @]
    IN  [db |-> (s + 1 :> row) @@ d, seq |-> s + 1, cupcake |-> row, err |-> NoError]

\* Save that writes the updated_at of the struct it is given
RepoUpdateAt_KeepUpdatedAt(t, d, s, c) ==
    [db |-> (c.ID :> c) @@ d, seq |-> IF c.ID > s THEN c.ID ELSE s,
     cupcake |-> c, err |-> NoError]

\* db.Save at time t: every column is written from the struct, created_at
\* included, except updated_at, which is set to t
RepoUpdateAt(t, d, s, c) ==
    LET row == [c EXCEPT !.UpdatedAt = t]
    IN  [db |-> (c.ID :> row) @@ d, seq |-> IF c.ID > s THEN c.ID ELSE s,
         cupcake |-> row, err |-> NoError]

CreateCupcakeAt(t, d, s, req) ==
    LET verr == validateCreateRequest(req)
        r == RepoCreateAt(t, d, s, NewCupcakeTimed(req))
    IN  IF verr # NoError
        THEN [db |-> d, seq |-> s, ret |-> <<>>, err |-> verr, trace |-> <<>>]
        ELSE [db |-> r.db, seq |-> r.seq, ret |-> <<r.cupcake>>, err |-> r.err,
              trace |-> <<"Create">>]

\* UpdateCupcake after its FindByID, its write made at time t
UpdateCupcakeCallAt(t, d, s, c, req) ==
    LET m == ApplyUpdate(c, req)
        r == RepoUpdateAt(t, d, s, m.cupcake)
    IN  IF m.err # NoError
        THEN [db |-> d, seq |-> s, ret |-> <<>>, err |-> m.err,
              trace |-> <<"FindByID">>]
        ELSE [db |-> r.db, seq |-> r.seq, ret |-> <<r.cupcake>>, err |-> r.err,
              trace |-> <<"FindByID", "Update">>]

\* the requests made in TimeSpec
TimedCreateRequests ==
    [Name : {<<" ", "a", "b", "\t">>}, Flavor : {<<"\t", "a", "b", " ">>},
     PriceCents : {0, 1}]

TimedUpdateRequests ==
    [Name : Opt({<<"E_ACUTE">>}), Flavor : {<<>>}, PriceCents : Opt({0, 2}),
     IsAvailable : {<<>>}]

CreateCupcakeTimed(req) ==
    /\ CanCall
    /\ LET r == CreateCupcakeAt(Now + 1, db, seq, req)
       IN  /\ r.seq <= MaxId
           /\ db' = r.db
           /\ seq' = r.seq
           /\ resp' = [NoResp EXCEPT !.op = "CreateCupcake", !.req = <<req>>,
                                     !.err = r.err, !.ret = r.ret, !.trace = r.trace]
    /\ ncalls' = ncalls + 1
    /\ UNCHANGED <<inflight, deleted>>

UpdateCupcakeWriteTimed(i, req) ==
    /\ resp = NoResp
    /\ i \in 1 .. Len(inflight)
    /\ \A j \in 1 .. (i - 1) : inflight[j] # inflight[i]
    /\ LET c == inflight[i]
           r == UpdateCupcakeCallAt(Now, db, seq, c, req)
       IN  /\ db' = r.db
           /\ seq' = r.seq
           /\ resp' = [NoResp EXCEPT !.op = "UpdateCupcake", !.id = c.ID,
                                     !.req = <<req>>, !.err = r.err, !.ret = r.ret,
                                     !.fetched = <<c>>, !.trace = r.trace]
    /\ inflight' = [k \in 1 .. (Len(inflight) - 1) |->
                        IF k < i THEN inflight[k] ELSE inflight[k + 1]]
    /\ UNCHANGED <<ncalls, deleted>>

TimeNext ==
    \/ \E req \in TimedCreateRequests : CreateCupcakeTimed(req)
    \/ \E id \in Ids : GetCupcake(id)
    \/ \E id \in Ids : UpdateCupcakeFetch(id)
    \/ \E i \in Workers, req \in TimedUpdateRequests : UpdateCupcakeWriteTimed(i, req)
    \/ \E id \in Ids : DeleteCupcake(id)
    \/ Return

TimeSpec == Init /\ [][TimeNext]_vars

TypeOK ==
    /\ seq \in 0 .. MaxId
    /\ DOMAIN db \subseteq 1 .. seq
    /\ \A i \in DOMAIN db : db[i].ID = i
    /\ Len(inflight) <= Cardinality(Workers)

\* ------------------------------------------------------------- claims ---

\* the step completes a call of the operation op
Completes(op) == resp = NoResp /\ resp'.op = op

ValidationErrors ==
    {ErrNameRequired, ErrNameTooShort, ErrFlavorRequired, ErrInvalidPrice}

\* C1: a create request whose trimmed name has at least 2 bytes, whose
\* trimmed flavor is not empty and whose price is positive succeeds and adds
\* exactly one row, under an identifier not in use, leaving every other row
\* as it was; the row and the returned entity carry the trimmed name and
\* flavor, the requested price and is_available = true.
C1_CreateStoresTrimmed ==
    [][ Completes("CreateCupcake") =>
        LET req == resp'.req[1]
        IN  (/\ len(TrimSpace(req.Name)) >= 2
             /\ TrimSpace(req.Flavor) # <<>>
             /\ req.PriceCents > 0)
            => /\ resp'.err = NoError
               /\ resp'.ret # <<>>
               /\ resp'.ret[1].ID \notin DOMAIN db
               /\ DOMAIN db' = DOMAIN db \cup {resp'.ret[1].ID}
               /\ \A i \in DOMAIN db : db'[i] = db[i]
               /\ db'[resp'.ret[1].ID] = resp'.ret[1]
               /\ resp'.ret[1].Name = TrimSpace(req.Name)
               /\ resp'.ret[1].Flavor = TrimSpace(req.Flavor)
               /\ resp'.ret[1].PriceCents = req.PriceCents
               /\ resp'.ret[1].IsAvailable = TRUE
      ]_vars

\* a second row was created from a padded name and a padded flavor
C1_Witness ==
    /\ resp.op = "CreateCupcake"
    /\ resp.err = NoError
    /\ resp.req[1].Name # TrimSpace(resp.req[1].Name)
    /\ resp.req[1].Flavor # TrimSpace(resp.req[1].Flavor)
    /\ resp.ret[1].ID = 2
    /\ DOMAIN db = {1, 2}

\* C2: a create request whose name is empty after trimming fails with
\* "name is required", whatever its flavor and price.
C2_EmptyNameRequired ==
    resp.op = "CreateCupcake" =>
        (TrimSpace(resp.req[1].Name) = <<>> => resp.err = ErrNameRequired)

\* a blank name together with an empty flavor and a price that is not positive
C2_Witness ==
    /\ resp.op = "CreateCupcake"
    /\ resp.req[1].Name = <<" ">>
    /\ resp.req[1].Flavor = <<>>
    /\ resp.req[1].PriceCents <= 0
    /\ resp.err = ErrNameRequired

\* C3: a create request whose trimmed name is exactly 1 byte long fails with
\* "name must have at least 2 characters", whatever its flavor and price.
C3_OneByteNameTooShort ==
    resp.op = "CreateCupcake" =>
        (len(TrimSpace(resp.req[1].Name)) = 1 => resp.err = ErrNameTooShort)

\* a padded one-byte name together with a blank flavor and a negative price
C3_Witness ==
    /\ resp.op = "CreateCupcake"
    /\ resp.req[1].Name = <<" ", "a">>
    /\ resp.req[1].Flavor = <<" ">>
    /\ resp.req[1].PriceCents < 0
    /\ resp.err = ErrNameTooShort

\* C4: with a valid name, a create request whose trimmed flavor is empty
\* fails with "flavor is required" whatever its price, and one whose trimmed
\* flavor is not empty and whose price is zero or negative fails with "price
\* must be greater than zero".
C4_FlavorThenPrice ==
    resp.op = "CreateCupcake" =>
        LET req == resp.req[1]
        IN  len(TrimSpace(req.Name)) >= 2 =>
              /\ TrimSpace(req.Flavor) = <<>> => resp.err = ErrFlavorRequired
              /\ (TrimSpace(req.Flavor) # <<>> /\ req.PriceCents <= 0)
                    => resp.err = ErrInvalidPrice

\* a valid name with a blank flavor and a negative price: the flavor is reported
C4_Witness ==
    /\ resp.op = "CreateCupcake"
    /\ len(TrimSpace(resp.req[1].Name)) >= 2
    /\ resp.req[1].Flavor = <<" ">>
    /\ resp.req[1].PriceCents < 0
    /\ resp.err = ErrFlavorRequired

\* C5: a CreateCupcake that fails validation returns no entity, makes no
\* gateway call and leaves the table and its identifier sequence as they were.
C5_FailedCreateNoWrite ==
    [][ (Completes("CreateCupcake") /\ resp'.err \in ValidationErrors) =>
        /\ resp'.ret = <<>>
        /\ resp'.trace = <<>>
        /\ db' = db
        /\ seq' = seq
      ]_vars

\* a create is rejected while a row is stored
C5_Witness ==
    /\ resp.op = "CreateCupcake"
    /\ resp.err = ErrInvalidPrice
    /\ DOMAIN db = {1}
    /\ seq = 1

\* C6: after a successful UpdateCupcake(id, req) the stored and the returned
\* entity agree; each of name, flavor, price and is_available that req leaves
\* out has the value the call fetched, each one req carries has the requested
\* value (trimmed, for name and flavor); no other row is changed, added or
\* removed.
C6_PartialUpdate ==
    [][ (Completes("UpdateCupcake") /\ resp'.err = NoError) =>
        LET req == resp'.req[1]
            old == resp'.fetched[1]
            new == resp'.ret[1]
            id == resp'.id
        IN  /\ id \in DOMAIN db'
            /\ db'[id] = new
            /\ new.ID = id
            /\ new.Name = IF req.Name = <<>> THEN old.Name
                          ELSE TrimSpace(req.Name[1])
            /\ new.Flavor = IF req.Flavor = <<>> THEN old.Flavor
                            ELSE TrimSpace(req.Flavor[1])
            /\ new.PriceCents = IF req.PriceCents = <<>> THEN old.PriceCents
                                ELSE req.PriceCents[1]
            /\ new.IsAvailable = IF req.IsAvailable = <<>> THEN old.IsAvailable
                                 ELSE req.IsAvailable[1]
            /\ DOMAIN db' \ {id} = DOMAIN db \ {id}
            /\ \A j \in DOMAIN db \ {id} : db'[j] = db[j]
      ]_vars

\* with two rows stored, an update that carries only a padded name changed
\* the name of the first
C6_Witness ==
    /\ resp.op = "UpdateCupcake"
    /\ resp.err = NoError
    /\ resp.id = 1
    /\ DOMAIN db = {1, 2}
    /\ resp.req[1].Name = << <<" ", "a", "b", "\t">> >>
    /\ resp.req[1].Flavor = <<>>
    /\ resp.req[1].PriceCents = <<>>
    /\ resp.req[1].IsAvailable = <<>>
    /\ resp.fetched[1].Name # resp.ret[1].Name
    /\ db[1].Flavor = resp.fetched[1].Flavor

\* the update request fails validation: it carries a name that trims to
\* fewer than 2 bytes, or a price that is not positive
FailsUpdateValidation(req) ==
    \/ req.Name # <<>> /\ len(TrimSpace(req.Name[1])) < 2
    \/ req.PriceCents # <<>> /\ req.PriceCents[1] <= 0

\* C7: an UpdateCupcake whose request fails validation, whatever else the
\* request carries, returns an error and no entity and leaves the table,
\* the stored row of that id included, as it was.
C7_FailedUpdateNoWrite ==
    [][ (Completes("UpdateCupcake") /\ resp'.req # <<>>
            /\ FailsUpdateValidation(resp'.req[1])) =>
        /\ resp'.err \in {ErrNameTooShort, ErrInvalidPrice}
        /\ resp'.ret = <<>>
        /\ db' = db
      ]_vars

\* a request with a valid name, a flavor, an availability and a price of
\* zero was rejected, and the row still is what the call fetched
C7_Witness ==
    /\ resp.op = "UpdateCupcake"
    /\ resp.err = ErrInvalidPrice
    /\ resp.req[1].Name = << <<"E_ACUTE">> >>
    /\ resp.req[1].Flavor = << <<" ">> >>
    /\ resp.req[1].IsAvailable = <<FALSE>>
    /\ resp.req[1].PriceCents = <<0>>
    /\ resp.id \in DOMAIN db
    /\ db[resp.id] = resp.fetched[1]
    /\ db[resp.id].Name # <<"E_ACUTE">>

\* C8 as stated: when UpdateCupcake fails validation, the copy it fetched
\* has had none of its fields changed.
C8_CopyUntouched ==
    (resp.op = "UpdateCupcake" /\ resp.err \in {ErrNameTooShort, ErrInvalidPrice})
        => resp.local = resp.fetched

\* C8, amended: when UpdateCupcake fails on the name, the copy it fetched is
\* unchanged; when it fails on the price, the copy's name and flavor have
\* been set to the trimmed values the request carries, and its price and
\* is_available are as fetched.
C8_CopyAfterFailure ==
    (resp.op = "UpdateCupcake" /\ resp.err \in {ErrNameTooShort, ErrInvalidPrice}) =>
        LET req == resp.req[1]
            old == resp.fetched[1]
        IN  resp.local[1] =
              IF resp.err = ErrNameTooShort THEN old
              ELSE [old EXCEPT
                      !.Name = IF req.Name = <<>> THEN @ ELSE TrimSpace(req.Name[1]),
                      !.Flavor = IF req.Flavor = <<>> THEN @
                                 ELSE TrimSpace(req.Flavor[1])]

\* an update with a valid name and a price of zero failed, and the copy's
\* name is the requested one, not the fetched one
C8_Witness ==
    /\ resp.op = "UpdateCupcake"
    /\ resp.err = ErrInvalidPrice
    /\ resp.req[1].Name # <<>>
    /\ resp.local[1].Name = TrimSpace(resp.req[1].Name[1])
    /\ resp.local[1].Name # resp.fetched[1].Name
    /\ resp.local[1].PriceCents = resp.fetched[1].PriceCents

\* the message of the service's own not-found error
ErrCupcakeNotFound == "cupcake not found"

\* C9: DeleteCupcake(id) for an id that is not stored fails with "cupcake
\* not found" and leaves the table unchanged; for a stored id it deletes the
\* row and returns no error.
C9_DeleteAbsentFails ==
    [][ Completes("DeleteCupcake") =>
        IF resp'.id \in DOMAIN db
        THEN resp'.err = NoError /\ resp'.id \notin DOMAIN db'
        ELSE resp'.err = ErrCupcakeNotFound /\ db' = db
      ]_vars

\* C10: UpdateCupcake never inserts a row: the identifiers stored after an
\* UpdateCupcake returns are among those stored before its write, also when
\* a DeleteCupcake of the same id ran between its fetch and its write.
C10_UpdateNeverInserts ==
    [][ Completes("UpdateCupcake") => DOMAIN db' \subseteq DOMAIN db ]_vars

C12_DeletedStaysGone ==
    (resp.op = "GetCupcake" /\ resp.id \in deleted) =>
        (resp.err = ErrRecordNotFound /\ resp.ret = <<>>)

\* the messages of the program that contain "not found"
ContainsNotFound(m) == m \in {"record not found", "cupcake not found"}

\* C13: a PUT on an id that is not stored, with a body that decodes, makes
\* the UpdateCupcake call return a not-found error and no entity after its
\* FindByID and without an Update call; the table and its sequence are
\* unchanged, the id is still not stored, and the response is 400 with an
\* error message that contains "not found".
C13_UpdateAbsentNotFound ==
    [][ (/\ resp = NoResp
         /\ resp'.handler = "UpdateCupcake"
         /\ resp'.op = "UpdateCupcake"
         /\ resp'.id \notin DOMAIN db) =>
        /\ ContainsNotFound(resp'.err)
        /\ resp'.ret = <<>>
        /\ resp'.trace = <<"FindByID">>
        /\ db' = db
        /\ seq' = seq
        /\ resp'.id \notin DOMAIN db'
        /\ resp'.status = StatusBadRequest
        /\ ContainsNotFound(resp'.body.error)
      ]_vars

\* with one row stored, a PUT of a valid name and price on the id 99 was
\* answered 400 "record not found"
C13_Witness ==
    /\ resp # NoResp
    /\ resp.handler = "UpdateCupcake"
    /\ resp.idStr = <<"9", "9">>
    /\ resp.op = "UpdateCupcake"
    /\ resp.id = 99
    /\ resp.req[1].Name = << <<" ", "a", "b", "\t">> >>
    /\ resp.req[1].PriceCents = <<2>>
    /\ DOMAIN db = {1}
    /\ resp.status = StatusBadRequest
    /\ resp.body = [error |-> "record not found"]

\* C14: every stored entity has a name that is its own trim and is at least
\* 2 bytes long, a flavor that is its own trim, and a price greater than zero.
C14_StoredEntitiesValid ==
    \A id \in DOMAIN db :
        /\ db[id].Name = TrimSpace(db[id].Name)
        /\ len(db[id].Name) >= 2
        /\ db[id].Flavor = TrimSpace(db[id].Flavor)
        /\ db[id].PriceCents > 0

\* a row created from padded text has been given a new name, a blank flavor
\* and a new price by an update, next to a second row
C14_Witness ==
    /\ resp.op = "UpdateCupcake"
    /\ resp.err = NoError
    /\ resp.req[1].Name = << <<"E_ACUTE">> >>
    /\ resp.req[1].Flavor = << <<" ">> >>
    /\ resp.req[1].PriceCents = <<2>>
    /\ resp.fetched[1].Name = <<"a", "b">>
    /\ resp.fetched[1].PriceCents = 1
    /\ DOMAIN db = {1, 2}
    /\ db[resp.id] = resp.ret[1]

\* C15: a successful CreateCupcake returns an entity whose id is greater
\* than zero and is the id of no row stored before, and stores it under that
\* id, also while UpdateCupcake calls are under way; a successful
\* UpdateCupcake returns and stores the entity under the id it was called
\* with; no step changes the id of a row that stays stored.
C15_IdsUniqueAndFixed ==
    [][ /\ (Completes("CreateCupcake") /\ resp'.err = NoError) =>
             /\ resp'.ret[1].ID > 0
             /\ \A j \in DOMAIN db : j # resp'.ret[1].ID /\ db[j].ID # resp'.ret[1].ID
             /\ resp'.ret[1].ID \in DOMAIN db'
             /\ db'[resp'.ret[1].ID] = resp'.ret[1]
        /\ (Completes("UpdateCupcake") /\ resp'.err = NoError) =>
             /\ resp'.ret[1].ID = resp'.id
             /\ resp'.fetched[1].ID = resp'.id
             /\ db'[resp'.id].ID = resp'.id
        /\ \A j \in DOMAIN db \cap DOMAIN db' : db'[j].ID = db[j].ID
        /\ \A j \in DOMAIN db' : db'[j].ID = j
      ]_vars

\* the second entity was created while an UpdateCupcake of the first was
\* under way
C15_Witness ==
    /\ resp.op = "CreateCupcake"
    /\ resp.err = NoError
    /\ resp.ret[1].ID = 2
    /\ DOMAIN db = {1, 2}
    /\ db[2] = resp.ret[1]
    /\ Len(inflight) = 1
    /\ inflight[1].ID = 1

\* C16: an UpdateCupcake whose request carries a flavor that is empty or
\* only whitespace, and passes the checks of name and price, succeeds, and
\* the returned and the stored flavor are the empty string; every flavor an
\* update carries is stored trimmed; a CreateCupcake with a flavor that is
\* empty or only whitespace does not succeed.
C16_BlankFlavorOnUpdate ==
    /\ (/\ resp.op = "UpdateCupcake"
        /\ resp.req # <<>>
        /\ resp.req[1].Flavor # <<>>
        /\ ~FailsUpdateValidation(resp.req[1])) =>
          /\ resp.err = NoError
          /\ resp.ret[1].Flavor = TrimSpace(resp.req[1].Flavor[1])
          /\ db[resp.id].Flavor = TrimSpace(resp.req[1].Flavor[1])
          /\ TrimSpace(resp.req[1].Flavor[1]) = <<>> => db[resp.id].Flavor = <<>>
    /\ (resp.op = "CreateCupcake" /\ TrimSpace(resp.req[1].Flavor) = <<>>) =>
          (resp.err # NoError /\ resp.ret = <<>>)

\* a row with the flavor "ab" was given the flavor " " by an update, and its
\* stored flavor is empty
C16_Witness ==
    /\ resp.op = "UpdateCupcake"
    /\ resp.err = NoError
    /\ resp.req[1].Flavor = << <<" ">> >>
    /\ resp.fetched[1].Flavor = <<"a", "b">>
    /\ db[resp.id].Flavor = <<>>

\* C17: an UpdateCupcake whose request carries a name that is empty or only
\* whitespace fails with "name must have at least 2 characters"; no
\* UpdateCupcake fails with "name is required".
C17_BlankNameTooShort ==
    resp.op = "UpdateCupcake" =>
        /\ resp.err # ErrNameRequired
        /\ (/\ resp.req # <<>>
            /\ resp.req[1].Name # <<>>
            /\ TrimSpace(resp.req[1].Name[1]) = <<>>) =>
              (resp.err = ErrNameTooShort /\ resp.ret = <<>>)

\* an update that carries the name " " and a price of zero was answered
\* with the too-short message
C17_Witness ==
    /\ resp.op = "UpdateCupcake"
    /\ resp.req # <<>>
    /\ resp.req[1].Name = << <<" ">> >>
    /\ resp.req[1].PriceCents = <<0>>
    /\ resp.err = ErrNameTooShort
    /\ db[resp.id] = resp.fetched[1]

C19_GetReadOnlyRepeatable ==
    [][ Completes("GetCupcake") =>
        /\ db' = db
        /\ seq' = seq
        /\ resp'.trace = <<"FindByID">>
        /\ GetCupcakeCall(db', resp'.id).ret = resp'.ret
        /\ GetCupcakeCall(db', resp'.id).err = resp'.err
        /\ resp'.ret = <<>> <=> resp'.err = ErrRecordNotFound
      ]_vars

\* a GetCupcake returned the stored entity after an earlier call that
\* changed nothing
C19_Witness ==
    /\ resp.op = "GetCupcake"
    /\ resp.err = NoError
    /\ resp.ret = <<db[resp.id]>>
    /\ seq = 1
    /\ deleted = {}
    /\ ncalls = 3

\* the {id} segment is not a decimal numeral, or is a numeral of zero
NonNumeric(s) ==
    s = <<>> \/ \E i \in 1 .. Len(s) :
        s[i] \notin {"0", "1", "2", "3", "4", "5", "6", "7", "8", "9"}

ZeroNumeral(s) == s # <<>> /\ \A i \in 1 .. Len(s) : s[i] = "0"

\* C20: a GET, PUT or DELETE on /api/v1/cupcakes/{id} whose id is not a
\* decimal numeral or is zero is answered 400 with the error "Invalid ID";
\* no service call and no gateway call is made, and the table, its sequence
\* and the record of deletions are unchanged.
C20_InvalidIdRejected ==
    [][ (/\ resp = NoResp
         /\ resp'.handler \in {"GetCupcake", "UpdateCupcake", "DeleteCupcake"}
         /\ (NonNumeric(resp'.idStr) \/ ZeroNumeral(resp'.idStr))) =>
        /\ resp'.status = StatusBadRequest
        /\ resp'.body = [error |-> "Invalid ID"]
        /\ resp'.op = "none"
        /\ resp'.trace = <<>>
        /\ db' = db
        /\ seq' = seq
        /\ deleted' = deleted
      ]_vars

\* with the entity 1 stored, a PUT on the id "1x" with a body that would
\* rename it was answered 400 "Invalid ID", and the entity has its old name
C20_Witness ==
    /\ resp # NoResp
    /\ resp.handler = "UpdateCupcake"
    /\ resp.idStr = <<"1", "x">>
    /\ resp.payload.wellformed
    /\ resp.payload.doc[1].Name = << <<" ", "a", "b", "\t">> >>
    /\ resp.payload.doc[1].PriceCents = <<>>
    /\ resp.status = StatusBadRequest
    /\ resp.body = [error |-> "Invalid ID"]
    /\ DOMAIN db = {1}
    /\ db[1].Name = <<"E_ACUTE">>

\* C21: when the service call made for a request returns an error, a POST,
\* PUT or DELETE is answered with status 400, a GET of one entity whose
\* error is the gateway's not-found is answered with status 404, and no
\* request is answered with 200, 201 or 204.
C21_StatusMapping ==
    (resp # NoResp /\ resp.op # "none" /\ resp.err # NoError) =>
        /\ resp.handler \in {"CreateCupcake", "UpdateCupcake", "DeleteCupcake"}
              => resp.status = StatusBadRequest
        /\ (resp.handler = "GetCupcake" /\ resp.err = ErrRecordNotFound)
              => resp.status = StatusNotFound
        /\ resp.status \notin {StatusOK, StatusCreated, StatusNoContent}

\* a DELETE of a stored entity whose Delete call failed was answered 400,
\* and the entity is still stored
C21_Witness ==
    /\ resp # NoResp
    /\ resp.handler = "DeleteCupcake"
    /\ resp.op = "DeleteCupcake"
    /\ resp.err = ErrGateway
    /\ resp.status = StatusBadRequest
    /\ resp.id \in DOMAIN db

\* C22: the body of every response with an error status is an object with
\* the one key "error"; when the service call of a POST or PUT returned a
\* validation error, the value under that key is the message of that error,
\* one of "name is required", "name must have at least 2 characters",
\* "flavor is required" and "price must be greater than zero", which are
\* four different messages.
C22_ErrorBody ==
    resp # NoResp =>
        /\ resp.status >= StatusBadRequest => DOMAIN resp.body = {"error"}
        /\ (resp.op # "none" /\ resp.err # NoError) => DOMAIN resp.body = {"error"}
        /\ (/\ resp.op \in {"CreateCupcake", "UpdateCupcake"}
            /\ resp.err \in ValidationErrors) =>
              /\ resp.body.error = resp.err
              /\ resp.body.error \in
                    {"name is required", "name must have at least 2 characters",
                     "flavor is required", "price must be greater than zero"}
        /\ Cardinality(ValidationErrors) = 4

\* a POST with a valid name, a blank flavor and a price of zero was answered
\* 400 {"error": "flavor is required"}
C22_Witness ==
    /\ resp # NoResp
    /\ resp.handler = "CreateCupcake"
    /\ resp.op = "CreateCupcake"
    /\ resp.req[1].Flavor = <<" ">>
    /\ resp.req[1].PriceCents = 0
    /\ resp.status = StatusBadRequest
    /\ resp.body = [error |-> "flavor is required"]

\* C23: no step changes the created_at of a row that stays stored or lowers
\* its updated_at; a successful CreateCupcake stores the entity with both
\* set to the time of the call; a successful UpdateCupcake stores the entity
\* with the created_at it fetched and with updated_at set to the time of the
\* write, which is not before the updated_at it fetched or overwrote.
C23_Timestamps ==
    [][ /\ \A id \in DOMAIN db \cap DOMAIN db' :
              /\ db'[id].CreatedAt = db[id].CreatedAt
              /\ db'[id].UpdatedAt >= db[id].UpdatedAt
        /\ (Completes("CreateCupcake") /\ resp'.err = NoError) =>
              /\ db'[resp'.ret[1].ID].CreatedAt = ncalls'
              /\ db'[resp'.ret[1].ID].UpdatedAt = ncalls'
              /\ ncalls' > 0
        /\ (Completes("UpdateCupcake") /\ resp'.err = NoError) =>
              /\ db'[resp'.id].CreatedAt = resp'.fetched[1].CreatedAt
              /\ db'[resp'.id].CreatedAt > 0
              /\ db'[resp'.id].UpdatedAt = ncalls
              /\ db'[resp'.id].UpdatedAt >= resp'.fetched[1].UpdatedAt
              /\ resp'.ret[1] = db'[resp'.id]
      ]_vars

\* of two calls that fetched the entity created at time 1, one wrote at time
\* 3 after the other: created_at is still 1 and updated_at is 3
C23_Witness ==
    /\ resp.op = "UpdateCupcake"
    /\ resp.err = NoError
    /\ inflight = <<>>
    /\ ncalls = 3
    /\ resp.id = 1
    /\ resp.fetched[1].CreatedAt = 1
    /\ resp.fetched[1].UpdatedAt = 1
    /\ db[1].CreatedAt = 1
    /\ db[1].UpdatedAt = 3

\* C24: a service call makes each gateway call at most once, CreateCupcake
\* only Create, UpdateCupcake only FindByID and then Update, DeleteCupcake
\* only Delete; when a gateway call it made failed, that call is the last
\* one it made and the service returns that call's error, so UpdateCupcake
\* makes no Update call after a failed FindByID.
C24_NoRetries ==
    (resp # NoResp /\ resp.op # "none") =>
        /\ \A i, j \in DOMAIN resp.trace :
              resp.trace[i] = resp.trace[j] => i = j
        /\ resp.op = "CreateCupcake" => resp.trace \in {<<>>, <<"Create">>}
        /\ resp.op = "UpdateCupcake" =>
              resp.trace \in {<<"FindByID">>, <<"FindByID", "Update">>}
        /\ resp.op = "DeleteCupcake" => resp.trace = <<"Delete">>
        /\ \A i \in DOMAIN resp.trace :
              resp.trace[i] \in resp.faults =>
                  /\ i = Len(resp.trace)
                  /\ resp.err = ErrGateway
                  /\ resp.ret = <<>>
        /\ (resp.op = "UpdateCupcake" /\ "FindByID" \in resp.faults) =>
              resp.trace = <<"FindByID">>

\* an UpdateCupcake of a stored entity whose Update call failed: the error
\* is returned after one FindByID and one Update, and the row is as it was
C24_Witness ==
    /\ resp # NoResp
    /\ resp.op = "UpdateCupcake"
    /\ resp.faults = {"Update"}
    /\ resp.trace = <<"FindByID", "Update">>
    /\ resp.err = ErrGateway
    /\ resp.id \in DOMAIN db
    /\ resp.req[1].PriceCents = <<2>>
    /\ db[resp.id].PriceCents = 1

\* C25: after database.Init has returned without error the schema holds the
\* cupcakes table, and on the database it returned, still empty, the list
\* request answers 200 with an empty list and a valid POST answers 201.
C25_TableAfterInit ==
    /\ DatabaseInit(FreshConfig).err = NoError =>
          TableName \in DatabaseInit(FreshConfig).tables
    /\ (resp # NoResp /\ resp.handler = "GetAllCupcakes" /\ db = <<>>) =>
          /\ resp.status = StatusOK
          /\ resp.body = <<>>
    /\ (resp # NoResp /\ resp.handler = "CreateCupcake"
          /\ resp.op = "CreateCupcake"
          /\ validateCreateRequest(resp.req[1]) = NoError) =>
          resp.status = StatusCreated

\* C26: the response to a PUT reports the first check that fails, in the
\* order id validity, body decoding, existence of the id, name length,
\* price: a body that does not decode sent to an id that is not
\* stored is answered "Error decoding request", and a name or price that
\* is not valid sent to an id that is not stored is answered with the
\* not-found error.
C26_PutCheckOrder ==
    (resp # NoResp /\ resp.handler = "UpdateCupcake") =>
        LET badId == NonNumeric(resp.idStr) \/ ZeroNumeral(resp.idStr)
            badBody == ~resp.payload.wellformed
            req == resp.payload.doc[1]
            absent == DigitsValue(resp.idStr) \notin DOMAIN db
            badName == req.Name # <<>> /\ len(TrimSpace(req.Name[1])) < 2
            badPrice == req.PriceCents # <<>> /\ req.PriceCents[1] <= 0
            first == IF badId THEN "Invalid ID"
                     ELSE IF badBody THEN "Error decoding request"
                     ELSE IF absent THEN ErrRecordNotFound
                     ELSE IF badName THEN ErrNameTooShort
                     ELSE IF badPrice THEN ErrInvalidPrice
                     ELSE NoError
        IN  IF first = NoError
            THEN resp.status = StatusOK
            ELSE /\ resp.status = StatusBadRequest
                 /\ resp.body = [error |-> first]

\* a PUT with a name and a price that are both not valid, sent to an id
\* that is not stored while another is, is answered with the not-found error
C26_Witness ==
    /\ resp # NoResp
    /\ resp.handler = "UpdateCupcake"
    /\ resp.idStr = <<"0", "2">>
    /\ DOMAIN db = {1}
    /\ resp.payload.wellformed
    /\ resp.payload.doc[1].Name = <<<<" ">>>>
    /\ resp.payload.doc[1].PriceCents = <<0>>
    /\ resp.status = StatusBadRequest
    /\ resp.body = [error |-> ErrRecordNotFound]

\* C27: a GET of one cupcake is answered 404 "cupcake not found" only when
\* no entity with that id is stored and FindByID reported that there is no
\* such row; when FindByID failed for another reason the response is not
\* 404 and its message is not "cupcake not found".
C27_NotFoundOnlyWhenAbsent ==
    (resp # NoResp /\ resp.handler = "GetCupcake" /\ resp.op = "GetCupcake") =>
        /\ (resp.status = StatusNotFound
              \/ resp.body = [error |-> "cupcake not found"]) =>
              /\ resp.id \notin DOMAIN db
              /\ resp.err = ErrRecordNotFound
        /\ resp.err = ErrGateway =>
              /\ resp.status # StatusNotFound
              /\ resp.body # [error |-> "cupcake not found"]

\* C28: a name whose trimmed form is exactly one character, whatever the
\* number of bytes of that character, is rejected with "name must have at
\* least 2 characters" by CreateCupcake, and by UpdateCupcake once it has
\* fetched the entity.
C28_NameLengthInCharacters ==
    /\ (resp # NoResp /\ resp.op = "CreateCupcake" /\ resp.req # <<>>
          /\ Len(TrimSpace(resp.req[1].Name)) = 1) =>
          resp.err = ErrNameTooShort
    /\ (resp # NoResp /\ resp.op = "UpdateCupcake" /\ resp.req # <<>>
          /\ resp.fetched # <<>>
          /\ resp.req[1].Name # <<>>
          /\ Len(TrimSpace(resp.req[1].Name[1])) = 1) =>
          resp.err = ErrNameTooShort

\* C29: an UpdateCupcake whose request has no field present, on an id that
\* is stored, returns no error and the entity with the name, flavor, price
\* and availability it fetched, after one FindByID and one Update call, and
\* the row stored under the id holds the fetched values.
C29_EmptyUpdate ==
    (resp # NoResp /\ resp.op = "UpdateCupcake" /\ resp.fetched # <<>>
        /\ resp.req = <<[Name |-> <<>>, Flavor |-> <<>>, PriceCents |-> <<>>,
                         IsAvailable |-> <<>>]>>) =>
        /\ resp.err = NoError
        /\ Len(resp.ret) = 1
        /\ resp.ret[1].ID = resp.id
        /\ resp.ret[1].Name = resp.fetched[1].Name
        /\ resp.ret[1].Flavor = resp.fetched[1].Flavor
        /\ resp.ret[1].PriceCents = resp.fetched[1].PriceCents
        /\ resp.ret[1].IsAvailable = resp.fetched[1].IsAvailable
        /\ resp.trace = <<"FindByID", "Update">>
        /\ resp.id \in DOMAIN db
        /\ db[resp.id] = resp.fetched[1]

\* an empty request has been applied to the stored entity 1
C29_Witness ==
    /\ resp # NoResp
    /\ resp.op = "UpdateCupcake"
    /\ resp.id = 1
    /\ resp.req = <<[Name |-> <<>>, Flavor |-> <<>>, PriceCents |-> <<>>,
                     IsAvailable |-> <<>>]>>
    /\ resp.err = NoError
    /\ resp.trace = <<"FindByID", "Update">>
    /\ db[1] = resp.fetched[1]
    /\ db[1].Name = <<"a", "b">>

\* C30: when an UpdateCupcake has returned without error, the same request
\* applied again to the same id, with nothing written in between, returns
\* without error and leaves the name, flavor, price and availability of the
\* stored entity, and of the entity returned, as the first application
\* left them.
C30_UpdateIdempotent ==
    (resp # NoResp /\ resp.op = "UpdateCupcake" /\ resp.err = NoError) =>
        LET again == UpdateCupcakeAtOnce(db, seq, resp.id, resp.req[1])
        IN  /\ again.err = NoError
            /\ again.trace = <<"FindByID", "Update">>
            /\ DOMAIN again.db = DOMAIN db
            /\ again.db[resp.id].Name = db[resp.id].Name
            /\ again.db[resp.id].Flavor = db[resp.id].Flavor
            /\ again.db[resp.id].PriceCents = db[resp.id].PriceCents
            /\ again.db[resp.id].IsAvailable = db[resp.id].IsAvailable
            /\ again.ret[1].Name = resp.ret[1].Name
            /\ again.ret[1].Flavor = resp.ret[1].Flavor
            /\ again.ret[1].PriceCents = resp.ret[1].PriceCents
            /\ again.ret[1].IsAvailable = resp.ret[1].IsAvailable

\* a request that sets all four fields has been applied to entity 1, which
\* already held the values of that request: availability FALSE, which no
\* CreateCupcake sets, and price 2
C30_Witness ==
    /\ resp # NoResp
    /\ resp.op = "UpdateCupcake"
    /\ resp.err = NoError
    /\ resp.id = 1
    /\ ncalls = 3
    /\ resp.req[1] = [Name |-> << <<" ", "a", "b", "\t">> >>,
                      Flavor |-> << <<"\t", "a", "b", " ">> >>,
                      PriceCents |-> <<2>>, IsAvailable |-> <<FALSE>>]
    /\ resp.fetched[1] = [ID |-> 1, Name |-> <<"a", "b">>, Flavor |-> <<"a", "b">>,
                          PriceCents |-> 2, IsAvailable |-> FALSE]
    /\ db[1] = resp.fetched[1]

====
